---- MODULE Spec2Model ----
(***************************************************************************)
(* SweetNest backend: the order / payment / loyalty core.                  *)
(*                                                                         *)
(* The persistent state is the document store (orders, users, coupons,     *)
(* carts).  Every request handler is an action.  Under Spec the handlers   *)
(* run one after the other (each is one atomic step); under ConcSpec the   *)
(* handlers that contend for one document are split at their await points  *)
(* (load, save) and up to MaxInFlight of them interleave.                  *)
(***************************************************************************)
EXTENDS Integers, Sequences, FiniteSets, TLC

VARIABLES
    orders,     \* the Order collection: a sequence, an order's _id is its index
    users,      \* the User collection (loyalty slice): sweetPoints, pointsHistory
    coupons,    \* the Coupon collection: a sequence, a coupon's _id is its index
    carts,      \* the Cart collection: one cart per user
    txnCount,   \* how many transaction uuids generateTransactionUuid has issued
    issued,     \* history: transaction uuid -> the order initiatePayment issued it for
    now,        \* the wall clock (new Date())
    last,       \* the last handler that answered: its request and its response
    reqs        \* requests in flight (ConcSpec): position, loaded documents

vars == <<orders, users, coupons, carts, txnCount, issued, now, last, reqs>>

----------------------------------------------------------------------------
(* Bounds of the model *)

MaxOrders == 2
MaxUsers == 1
MaxTime == 1
MaxTxn == 2
MaxQty == 2
MaxCoupons == 2
MaxInFlight == 2
MaxHistory == 2

\* Absent values, one per type (undefined / null in the documents).
Null == "null"
NoTime == 0 - 1
NoId == NoTime + 1
NoEsewa == [transactionId |-> NoId, refId |-> Null, amount |-> 0 - 1, paidAt |-> NoTime]
NoPromo == [code |-> Null, discount |-> 0, discountType |-> Null]

Users == 1..MaxUsers
OrderIds == 1..MaxOrders
TxnIds == 1..MaxTxn
\* req.user: a customer, or the administrator (NoId).
Actors == Users \cup {NoId}
IsAdmin(actor) == actor = NoId

\* The catalog: the price of the one weight tier customers can pick.
WeightPrices == {500}

Notes == {"", "note"}

OrderStatuses ==
    {"pending", "confirmed", "processing", "out_for_delivery", "delivered", "cancelled"}

PaymentMethods == {"esewa", "cod"}

----------------------------------------------------------------------------
(* Generic helpers *)

RECURSIVE SumSeq(_)
SumSeq(s) == IF s = <<>> THEN 0 ELSE Head(s) + SumSeq(Tail(s))

\* Math.round on a non-negative rational num/den.
RoundDiv(num, den) == (2 * num + den) \div (2 * den)

----------------------------------------------------------------------------
(* Cart virtuals (model/Cart.js) *)

RECURSIVE CartSubtotalOf(_)
CartSubtotalOf(items) ==
    IF items = <<>> THEN 0
    ELSE Head(items).price * Head(items).quantity + CartSubtotalOf(Tail(items))

CartSubtotal(cart) == CartSubtotalOf(cart.items)

CartShipping(cart) == IF cart.deliveryType = "delivery" THEN 100 ELSE 0

CartDiscountAmount(cart) ==
    IF cart.promoCode.code = Null THEN 0
    ELSE IF cart.promoCode.discountType = "percentage"
         THEN RoundDiv(CartSubtotal(cart) * cart.promoCode.discount, 100)
         ELSE cart.promoCode.discount

\* A cart total that leaves the shipping fee out.
CartTotal_NoShipping(cart) == CartSubtotal(cart) - CartDiscountAmount(cart)

CartTotal(cart) == CartSubtotal(cart) + CartShipping(cart) - CartDiscountAmount(cart)

EmptyCart == [items |-> <<>>, deliveryType |-> "delivery", promoCode |-> NoPromo]

----------------------------------------------------------------------------
(* Order methods (model/Order.js) *)

\* A table that lets a pending order skip ahead.
validTransitions_Skip(status) ==
    CASE status = "pending" -> {"confirmed", "cancelled", "out_for_delivery"}
      [] status = "confirmed" -> {"processing", "cancelled"}
      [] status = "processing" -> {"out_for_delivery", "cancelled"}
      [] status = "out_for_delivery" -> {"delivered"}
      [] OTHER -> {}

validTransitions(status) ==
    CASE status = "pending" -> {"confirmed", "cancelled"}
      [] status = "confirmed" -> {"processing", "cancelled"}
      [] status = "processing" -> {"out_for_delivery", "cancelled"}
      [] status = "out_for_delivery" -> {"delivered"}
      [] status = "delivered" -> {}
      [] status = "cancelled" -> {}
      [] OTHER -> {}

\* The virtual canBeCancelled.
canBeCancelled(order) == order.orderStatus \in {"pending", "confirmed"}

\* An updateStatus that stamps deliveries only.
updateStatus_NoCancelStamp(order, newStatus, notes, t) ==
    IF newStatus \notin validTransitions(order.orderStatus)
    THEN [ok |-> FALSE, doc |-> order]
    ELSE LET a == [order EXCEPT !.orderStatus = newStatus]
             b == IF newStatus = "delivered"
                  THEN [a EXCEPT !.deliveredAt = t]
                  ELSE a
             c == IF notes # "" /\ newStatus # "cancelled"
                  THEN [b EXCEPT !.notes = notes]
                  ELSE b
         IN [ok |-> TRUE, doc |-> c]

\* updateStatus up to its save(): the document as the method leaves it, or the
\* error it throws.  t is new Date().
updateStatus(order, newStatus, notes, t) ==
    IF newStatus \notin validTransitions(order.orderStatus)
    THEN [ok |-> FALSE, doc |-> order]
    ELSE LET a == [order EXCEPT !.orderStatus = newStatus]
             b == IF newStatus = "cancelled"
                  THEN [a EXCEPT !.cancelledAt = t, !.cancelReason = notes]
                  ELSE IF newStatus = "delivered"
                       THEN [a EXCEPT !.deliveredAt = t]
                       ELSE a
             c == IF notes # "" /\ newStatus # "cancelled"
                  THEN [b EXCEPT !.notes = notes]
                  ELSE b
         IN [ok |-> TRUE, doc |-> c]

\* A markAsPaid that never confirms the order.
markAsPaid_NoConfirm(order, esewaDetails, t) ==
    [order EXCEPT !.paymentStatus = "paid",
                  !.esewa = [transactionId |-> esewaDetails.transactionId,
                             refId |-> esewaDetails.refId,
                             amount |-> esewaDetails.amount,
                             paidAt |-> t]]

\* A markAsPaid that confirms the order whatever its status.
markAsPaid_AlwaysConfirm(order, esewaDetails, t) ==
    [order EXCEPT !.paymentStatus = "paid", !.orderStatus = "confirmed",
                  !.esewa = [transactionId |-> esewaDetails.transactionId,
                             refId |-> esewaDetails.refId,
                             amount |-> esewaDetails.amount,
                             paidAt |-> t]]

\* markAsPaid up to its save().  esewaDetails is never empty at its one call site.
markAsPaid(order, esewaDetails, t) ==
    LET a == [order EXCEPT !.paymentStatus = "paid",
                           !.esewa = [transactionId |-> esewaDetails.transactionId,
                                      refId |-> esewaDetails.refId,
                                      amount |-> esewaDetails.amount,
                                      paidAt |-> t]]
    IN IF a.orderStatus = "pending" THEN [a EXCEPT !.orderStatus = "confirmed"] ELSE a

\* document.save(): Mongoose writes ($set) the paths whose value differs from the
\* value loaded; every other path keeps what the store holds.
OrderFields ==
    {"user", "paymentMethod", "paymentStatus", "orderStatus", "items", "subtotal",
     "shipping", "discount", "total", "promoCode", "esewa", "notes", "cancelledAt",
     "cancelReason", "deliveredAt"}

SaveOrder(stored, loaded, doc) ==
    [f \in OrderFields |-> IF doc[f] # loaded[f] THEN doc[f] ELSE stored[f]]

----------------------------------------------------------------------------
(* Rewards configuration (config/rewards.js) *)

RewardTierIds == {"bronze", "silver", "gold", "platinum"}

NoTier ==
    [id |-> Null, pointsCost |-> 0, discountValue |-> 0, maxDiscount |-> 0,
     minOrderAmount |-> 0, validityDays |-> 0]

\* getRewardTier: NoTier (undefined) for an unknown id.
getRewardTier(tierId) ==
    CASE tierId = "bronze" ->
           [id |-> "bronze", pointsCost |-> 100, discountValue |-> 5,
            maxDiscount |-> 100, minOrderAmount |-> 500, validityDays |-> 30]
      [] tierId = "silver" ->
           [id |-> "silver", pointsCost |-> 250, discountValue |-> 10,
            maxDiscount |-> 250, minOrderAmount |-> 1000, validityDays |-> 45]
      [] tierId = "gold" ->
           [id |-> "gold", pointsCost |-> 500, discountValue |-> 15,
            maxDiscount |-> 500, minOrderAmount |-> 1500, validityDays |-> 60]
      [] tierId = "platinum" ->
           [id |-> "platinum", pointsCost |-> 1000, discountValue |-> 20,
            maxDiscount |-> 1000, minOrderAmount |-> 2000, validityDays |-> 90]
      [] OTHER -> NoTier

SPENDING_RATIO == 10
FIRST_ORDER_BONUS == 50
ORDER_MILESTONES ==
    <<[amount |-> 1000, bonus |-> 20], [amount |-> 2000, bonus |-> 50],
      [amount |-> 5000, bonus |-> 100]>>

RECURSIVE MilestoneBonus(_, _)
MilestoneBonus(orderAmount, ms) ==
    IF ms = <<>> THEN 0
    ELSE (IF orderAmount >= Head(ms).amount THEN Head(ms).bonus ELSE 0)
         + MilestoneBonus(orderAmount, Tail(ms))

\* A formula that grants only the highest milestone reached.
calculatePointsEarned_TopMilestone(orderAmount, isFirstOrder) ==
    (orderAmount \div SPENDING_RATIO)
    + (IF isFirstOrder THEN FIRST_ORDER_BONUS ELSE 0)
    + (IF orderAmount >= 5000 THEN 100
       ELSE IF orderAmount >= 2000 THEN 50
       ELSE IF orderAmount >= 1000 THEN 20 ELSE 0)

calculatePointsEarned(orderAmount, isFirstOrder) ==
    (orderAmount \div SPENDING_RATIO)
    + (IF isFirstOrder THEN FIRST_ORDER_BONUS ELSE 0)
    + MilestoneBonus(orderAmount, ORDER_MILESTONES)

----------------------------------------------------------------------------
(* Loyalty ledger documents (controller/rewardsController.js) *)

NewUser == [sweetPoints |-> 0, pointsHistory |-> <<>>]

\* awardPoints between its reads and its save(): the balance credited and one
\* 'earned' entry pushed on the loaded document.
AwardOnUser(user, orderId, orderAmount, isFirstOrder) ==
    LET pointsEarned == calculatePointsEarned(orderAmount, isFirstOrder)
    IN [user EXCEPT
          !.sweetPoints = @ + pointsEarned,
          !.pointsHistory = Append(@,
              [amount |-> pointsEarned, type |-> "earned",
               description |-> IF isFirstOrder THEN "Earned from first order + bonus"
                                               ELSE "Earned from order",
               relatedOrder |-> orderId, relatedCoupon |-> NoId])]

\* A redemption that debits the balance and records the cost unsigned.
RedeemOnUser_Unsigned(user, tier, couponId) ==
    [user EXCEPT
       !.sweetPoints = @ - tier.pointsCost,
       !.pointsHistory = Append(@,
           [amount |-> tier.pointsCost, type |-> "redeemed",
            description |-> "Redeemed coupon",
            relatedOrder |-> NoId, relatedCoupon |-> couponId])]

\* redeemPoints after Coupon.create: the balance debited and one 'redeemed'
\* entry pushed on the loaded document.
RedeemOnUser(user, tier, couponId) ==
    [user EXCEPT
       !.sweetPoints = @ - tier.pointsCost,
       !.pointsHistory = Append(@,
           [amount |-> 0 - tier.pointsCost, type |-> "redeemed",
            description |-> "Redeemed coupon",
            relatedOrder |-> NoId, relatedCoupon |-> couponId])]

\* The Coupon document Coupon.create builds from a tier.
NewCoupon(u, tier, t) ==
    [user |-> u, discountType |-> "percentage", discountValue |-> tier.discountValue,
     maxDiscount |-> tier.maxDiscount, minOrderAmount |-> tier.minOrderAmount,
     rewardTier |-> tier.id, pointsCost |-> tier.pointsCost,
     isUsed |-> FALSE, usedAt |-> NoTime, usedInOrder |-> NoId,
     expiresAt |-> t + tier.validityDays]

\* user.save(): sweetPoints is written ($set) when it differs from the value
\* loaded; the entries pushed on pointsHistory are appended ($push) to the
\* stored array.
SaveUser(stored, loaded, doc) ==
    [sweetPoints |-> IF doc.sweetPoints # loaded.sweetPoints
                     THEN doc.sweetPoints ELSE stored.sweetPoints,
     pointsHistory |-> stored.pointsHistory \o
         SubSeq(doc.pointsHistory, Len(loaded.pointsHistory) + 1, Len(doc.pointsHistory))]

\* A count that takes every order for the customer's only one.
countNonCancelled_One(os, u) == 1

\* Order.countDocuments({user, orderStatus: {$nin: ['cancelled']}}).
countNonCancelled(os, u) ==
    Cardinality({i \in DOMAIN os : os[i].user = u /\ os[i].orderStatus # "cancelled"})

----------------------------------------------------------------------------
(* Payment gateway messages (controller/esewaController.js) *)

SecretKey == "secretKey"
ProductCode == "EPAYTEST"

\* HMAC-SHA256 taken as collision free: a signature determines its key and message.
generateSignature(message, secret) == <<secret, message>>

\* The signed field lists: the gateway's callback, and the payment form's.
CallbackFields ==
    <<"transaction_code", "status", "total_amount", "transaction_uuid", "product_code",
      "signed_field_names">>
FormFields == <<"total_amount", "transaction_uuid", "product_code">>

RECURSIVE JoinNames(_)
JoinNames(fs) ==
    IF fs = <<>> THEN ""
    ELSE IF Len(fs) = 1 THEN Head(fs) ELSE Head(fs) \o "," \o JoinNames(Tail(fs))

\* `${decodedData[field]}`
FieldText(payload, field) ==
    CASE field = "transaction_code" -> payload.transaction_code
      [] field = "status" -> payload.status
      [] field = "total_amount" -> ToString(payload.total_amount)
      [] field = "transaction_uuid" -> ToString(payload.transaction_uuid)
      [] field = "product_code" -> ProductCode
      [] field = "signed_field_names" -> JoinNames(payload.signed_field_names)
      [] OTHER -> "undefined"

\* signed_field_names.split(',').map(f => `${f}=${decodedData[f]}`).join(',')
SignatureMessage(payload) ==
    [i \in DOMAIN payload.signed_field_names |->
        payload.signed_field_names[i] \o "=" \o FieldText(payload, payload.signed_field_names[i])]

----------------------------------------------------------------------------
(* Responses, time *)

Response(op, res) == [op |-> op, res |-> res]

\* Time passes between requests; the clock never runs back.
Tick ==
    /\ now < MaxTime
    /\ now' = now + 1
    /\ UNCHANGED <<orders, users, coupons, carts, txnCount, issued, last, reqs>>

Exists(id) == id \in DOMAIN orders

----------------------------------------------------------------------------
(* Cart controller *)

\* addToCart: the same cake and weight tier again adds to the line's quantity.
AddToCart(u, price, quantity) ==
    LET cart == carts[u]
        idx == {i \in DOMAIN cart.items : cart.items[i].price = price}
        newItems ==
            IF idx = {}
            THEN Append(cart.items, [price |-> price, quantity |-> quantity])
            ELSE [i \in DOMAIN cart.items |->
                    IF i \in idx
                    THEN [cart.items[i] EXCEPT !.quantity = @ + quantity]
                    ELSE cart.items[i]]
    IN /\ \A i \in DOMAIN newItems : newItems[i].quantity <= MaxQty
       /\ carts' = [carts EXCEPT ![u].items = newItems]
       /\ last' = Response("addToCart", "ok")
       /\ UNCHANGED <<orders, users, coupons, txnCount, issued, now, reqs>>

\* updateDeliveryType
updateDeliveryType(u, deliveryType) ==
    /\ IF deliveryType \notin {"delivery", "pickup"}
       THEN /\ last' = Response("updateDeliveryType", "invalid")
            /\ UNCHANGED carts
       ELSE /\ carts' = [carts EXCEPT ![u].deliveryType = deliveryType]
            /\ last' = Response("updateDeliveryType", "ok")
    /\ UNCHANGED <<orders, users, coupons, txnCount, issued, now, reqs>>

\* The promo codes applyPromoCode knows; NoPromo for any other code.
promoCodes(code) ==
    CASE code = "SWEET10" -> [code |-> "SWEET10", discount |-> 10, discountType |-> "percentage"]
      [] code = "FLAT50" -> [code |-> "FLAT50", discount |-> 50, discountType |-> "fixed"]
      [] OTHER -> NoPromo

applyPromoCode(u, code) ==
    /\ IF promoCodes(code).code = Null
       THEN /\ last' = Response("applyPromoCode", "invalid")
            /\ UNCHANGED carts
       ELSE /\ carts' = [carts EXCEPT ![u].promoCode = promoCodes(code)]
            /\ last' = Response("applyPromoCode", "ok")
    /\ UNCHANGED <<orders, users, coupons, txnCount, issued, now, reqs>>

removePromoCode(u) ==
    /\ carts' = [carts EXCEPT ![u].promoCode = NoPromo]
    /\ last' = Response("removePromoCode", "ok")
    /\ UNCHANGED <<orders, users, coupons, txnCount, issued, now, reqs>>

----------------------------------------------------------------------------
(* Order controller *)

\* Order items whose itemTotal is the unit price.
OrderItems_UnitTotal(cart) ==
    [i \in DOMAIN cart.items |->
        [quantity |-> cart.items[i].quantity,
         price |-> cart.items[i].price,
         itemTotal |-> cart.items[i].price]]

\* The order items createOrder builds from the cart lines.
OrderItems(cart) ==
    [i \in DOMAIN cart.items |->
        [quantity |-> cart.items[i].quantity,
         price |-> cart.items[i].price,
         itemTotal |-> cart.items[i].price * cart.items[i].quantity]]

NewOrder(u, cart, paymentMethod) ==
    [user |-> u,
     paymentMethod |-> paymentMethod,
     paymentStatus |-> "pending",
     orderStatus |-> IF paymentMethod = "cod" THEN "confirmed" ELSE "pending",
     items |-> OrderItems(cart),
     subtotal |-> CartSubtotal(cart),
     shipping |-> CartShipping(cart),
     discount |-> CartDiscountAmount(cart),
     total |-> CartTotal(cart),
     promoCode |-> cart.promoCode,
     esewa |-> NoEsewa,
     notes |-> Null,
     cancelledAt |-> NoTime,
     cancelReason |-> Null,
     deliveredAt |-> NoTime]

\* No request: the slot's fields at rest.
IdleReq ==
    [pc |-> "idle", op |-> Null, id |-> NoId, status |-> Null, notes |-> "",
     tier |-> NoTier, loaded |-> NewOrder(NoId, EmptyCart, "cod"),
     order |-> NewOrder(NoId, EmptyCart, "cod"), user |-> NewUser,
     first |-> FALSE, coupon |-> NoId, orderNumber |-> NoId]

\* A checkout that empties the cart's items and keeps its promo code.
createOrder_KeepPromo(u, paymentMethod, limit) ==
    /\ IF carts[u].items = <<>>
       THEN /\ last' = Response("createOrder", "cart-empty")
            /\ UNCHANGED <<orders, carts>>
       ELSE /\ Len(orders) < limit
            /\ NewOrder(u, carts[u], paymentMethod).total >= 0
            /\ orders' = Append(orders, NewOrder(u, carts[u], paymentMethod))
            /\ carts' = IF paymentMethod = "cod"
                        THEN [carts EXCEPT ![u].items = <<>>]
                        ELSE carts
            /\ last' = Response("createOrder", "ok")
    /\ UNCHANGED <<users, coupons, txnCount, issued, now, reqs>>

\* The Order schema's validators that Order.create runs: subtotal and total
\* have min 0.
ValidOrder(order) == order.subtotal >= 0 /\ order.total >= 0

createOrder(u, paymentMethod, limit) ==
    /\ IF carts[u].items = <<>>
       THEN /\ last' = Response("createOrder", "cart-empty")
            /\ UNCHANGED <<orders, carts>>
       ELSE IF ~ValidOrder(NewOrder(u, carts[u], paymentMethod))
       THEN /\ last' = Response("createOrder", "validation-error")
            /\ UNCHANGED <<orders, carts>>
       ELSE /\ Len(orders) < limit
            /\ orders' = Append(orders, NewOrder(u, carts[u], paymentMethod))
            /\ carts' = IF paymentMethod = "cod"
                        THEN [carts EXCEPT ![u].items = <<>>, ![u].promoCode = NoPromo]
                        ELSE carts
            /\ last' = Response("createOrder", "ok")
    /\ UNCHANGED <<users, coupons, txnCount, issued, now, reqs>>

\* A status update that consults the table before the failed-payment guard.
StatusUpdate_TableFirst(order, status, notes, t) ==
    LET r == updateStatus(order, status, notes, t)
    IN IF ~r.ok THEN [res |-> "invalid-transition", doc |-> order]
       ELSE IF order.paymentStatus = "failed" /\ status # "cancelled"
       THEN [res |-> "payment-failed", doc |-> order]
       ELSE [res |-> "ok", doc |-> r.doc]

\* updateOrderStatus up to the response of order.updateStatus: the guard on a
\* failed payment, then the transition table.
StatusUpdate(order, status, notes, t) ==
    IF order.paymentStatus = "failed" /\ status # "cancelled"
    THEN [res |-> "payment-failed", doc |-> order]
    ELSE LET r == updateStatus(order, status, notes, t)
         IN [res |-> IF r.ok THEN "ok" ELSE "invalid-transition", doc |-> r.doc]

updateOrderStatus(id, status, notes) ==
    /\ IF ~Exists(id)
       THEN /\ last' = Response("updateOrderStatus", "not-found")
            /\ UNCHANGED <<orders, users>>
       ELSE LET r == StatusUpdate(orders[id], status, notes, now)
                saved == [orders EXCEPT ![id] = SaveOrder(@, @, r.doc)]
                u == orders[id].user
                award == r.res = "ok" /\ status = "delivered"
                                      /\ orders[id].orderStatus # "delivered"
            IN /\ last' = Response("updateOrderStatus", r.res)
               /\ orders' = IF r.res = "ok" THEN saved ELSE orders
               /\ users' =
                    IF award
                    THEN [users EXCEPT ![u] =
                            SaveUser(@, @, AwardOnUser(@, id, saved[id].total,
                                                       countNonCancelled(saved, u) = 1))]
                    ELSE users
    /\ UNCHANGED <<coupons, carts, txnCount, issued, now, reqs>>

\* What can go wrong inside awardPoints: User.findById returns null, or
\* user.save() rejects.
AwardFaults == {"none", "user-not-found", "save-error"}

\* awardPoints(userId, orderId, orderAmount): the users after the call.  A
\* missing user returns { success: false } before anything is computed; a
\* rejected save() is caught and returns { success: false }.
AwardOutcome(us, os, u, orderId, orderAmount, fault) ==
    IF fault # "none" THEN us
    ELSE [us EXCEPT ![u] =
            SaveUser(@, @, AwardOnUser(@, orderId, orderAmount,
                                       countNonCancelled(os, u) = 1))]

\* awardPoints called on its own, as the module exports it.
awardPoints(u, orderId, orderAmount, fault) ==
    /\ Len(users[u].pointsHistory) < MaxHistory
    /\ users' = AwardOutcome(users, orders, u, orderId, orderAmount, fault)
    /\ last' = Response("awardPoints", IF fault = "none" THEN "ok" ELSE "failed")
    /\ UNCHANGED <<orders, coupons, carts, txnCount, issued, now, reqs>>

\* A status update that answers with an error and saves nothing when the
\* award fails.
updateOrderStatusFaulty_Rollback(id, status, notes, fault) ==
    /\ Exists(id)
    /\ LET r == StatusUpdate(orders[id], status, notes, now)
           award == r.res = "ok" /\ status = "delivered"
       IN /\ last' = Response("updateOrderStatus",
                              IF award /\ fault # "none" THEN "error" ELSE r.res)
          /\ orders' = IF r.res = "ok" /\ ~(award /\ fault # "none")
                       THEN [orders EXCEPT ![id] = SaveOrder(@, @, r.doc)]
                       ELSE orders
          /\ users' = IF award
                      THEN AwardOutcome(users, orders', orders[id].user, id,
                                        orders[id].total, fault)
                      ELSE users
    /\ UNCHANGED <<coupons, carts, txnCount, issued, now, reqs>>

\* updateOrderStatus when awardPoints may fail: the failure is caught inside
\* awardPoints (and again around the call), and the request answers 200.
updateOrderStatusFaulty(id, status, notes, fault) ==
    /\ Exists(id)
    /\ LET r == StatusUpdate(orders[id], status, notes, now)
           award == r.res = "ok" /\ status = "delivered"
                                 /\ orders[id].orderStatus # "delivered"
       IN /\ last' = Response("updateOrderStatus", r.res)
          /\ orders' = IF r.res = "ok"
                       THEN [orders EXCEPT ![id] = SaveOrder(@, @, r.doc)]
                       ELSE orders
          /\ users' = IF award
                      THEN AwardOutcome(users, orders', orders[id].user, id,
                                        orders[id].total, fault)
                      ELSE users
    /\ UNCHANGED <<coupons, carts, txnCount, issued, now, reqs>>

cancelOrder(actor, id, reason) ==
    /\ IF ~Exists(id)
       THEN /\ last' = Response("cancelOrder", "not-found")
            /\ UNCHANGED orders
       ELSE IF orders[id].user # actor /\ ~IsAdmin(actor)
       THEN /\ last' = Response("cancelOrder", "not-authorized")
            /\ UNCHANGED orders
       ELSE IF ~canBeCancelled(orders[id])
       THEN /\ last' = Response("cancelOrder", "cannot-cancel")
            /\ UNCHANGED orders
       ELSE LET r == updateStatus(orders[id], "cancelled", reason, now)
            IN /\ last' = Response("cancelOrder",
                                   IF r.ok THEN "ok" ELSE "invalid-transition")
               /\ orders' = IF r.ok THEN [orders EXCEPT ![id] = SaveOrder(@, @, r.doc)]
                            ELSE orders
    /\ UNCHANGED <<users, coupons, carts, txnCount, issued, now, reqs>>

\* processRefund: the Order model has no processRefund method, so the call
\* throws inside the handler's try block and the request is answered 400.
processRefund(id) ==
    /\ last' = Response("processRefund",
                        IF ~Exists(id) THEN "not-found"
                        ELSE IF orders[id].paymentStatus # "paid" THEN "not-paid"
                        ELSE "error")
    /\ UNCHANGED <<orders, users, coupons, carts, txnCount, issued, now, reqs>>

----------------------------------------------------------------------------
(* eSewa controller *)

\* Order.findOne({'esewa.transactionId': uuid}): the first match, NoId for none.
findByTransaction(os, uuid) ==
    LET hits == {i \in DOMAIN os : os[i].esewa.transactionId = uuid}
    IN IF hits = {} THEN NoId ELSE CHOOSE i \in hits : \A j \in hits : i <= j

\* generateTransactionUuid: time and random digits, taken as never repeating.
generateTransactionUuid == txnCount + 1

initiatePayment(actor, id) ==
    /\ IF ~Exists(id)
       THEN /\ last' = Response("initiatePayment", "not-found")
            /\ UNCHANGED <<orders, txnCount, issued>>
       ELSE IF orders[id].user # actor
       THEN /\ last' = Response("initiatePayment", "not-authorized")
            /\ UNCHANGED <<orders, txnCount, issued>>
       ELSE IF orders[id].paymentStatus = "paid"
       THEN /\ last' = Response("initiatePayment", "already-paid")
            /\ UNCHANGED <<orders, txnCount, issued>>
       ELSE IF orders[id].paymentMethod # "esewa"
       THEN /\ last' = Response("initiatePayment", "not-esewa")
            /\ UNCHANGED <<orders, txnCount, issued>>
       ELSE /\ txnCount < MaxTxn
            /\ LET uuid == generateTransactionUuid
                   doc == [orders[id] EXCEPT
                             !.esewa = [NoEsewa EXCEPT !.transactionId = uuid]]
               IN /\ orders' = [orders EXCEPT ![id] = SaveOrder(@, @, doc)]
                  /\ txnCount' = uuid
                  /\ issued' = [issued EXCEPT ![uuid] = id]
            /\ last' = Response("initiatePayment", "ok")
    /\ UNCHANGED <<users, coupons, carts, now, reqs>>

\* The amounts a callback may declare: an order's total, or something else.
Amounts == {orders[i].total : i \in DOMAIN orders} \cup {0}

\* A callback before it is signed.  decodable = FALSE stands for a data
\* parameter that JSON.parse rejects or that lacks signed_field_names.
CallbackBodies ==
    [decodable : {TRUE}, transaction_uuid : TxnIds, status : {"COMPLETE", "PENDING"},
     total_amount : Amounts, transaction_code : {"REF"},
     signed_field_names : {CallbackFields}]

WithSignature(body, signature) ==
    [decodable |-> body.decodable, transaction_uuid |-> body.transaction_uuid,
     status |-> body.status, total_amount |-> body.total_amount,
     transaction_code |-> body.transaction_code,
     signed_field_names |-> body.signed_field_names, signature |-> signature]

Signed(body, key) == WithSignature(body, generateSignature(SignatureMessage(body), key))

\* What the gateway sends: a callback signed with the shared secret.
GatewayCallbacks == {Signed(b, SecretKey) : b \in CallbackBodies}

\* What anyone else can send to the public endpoint: a callback signed with
\* another key, a gateway callback altered in its amount or its status, the
\* signed payment form of initiatePayment replayed with a status added, and
\* data that does not decode.
OtherCallbacks ==
    {Signed(b, "otherKey") : b \in {c \in CallbackBodies : c.status = "COMPLETE"}}
    \cup {[Signed(b, SecretKey) EXCEPT !.total_amount = 0] :
             b \in {c \in CallbackBodies : c.total_amount # 0 /\ c.status = "COMPLETE"}}
    \cup {[Signed(b, SecretKey) EXCEPT !.status = "COMPLETE"] :
             b \in {c \in CallbackBodies : c.status = "PENDING"}}
    \cup {Signed([b EXCEPT !.signed_field_names = FormFields], SecretKey) :
             b \in {c \in CallbackBodies : c.status = "COMPLETE"}}
    \cup {[Signed(b, SecretKey) EXCEPT !.decodable = FALSE] :
             b \in {c \in CallbackBodies : c.status = "COMPLETE" /\ c.total_amount = 0
                                           /\ c.transaction_uuid = 1}}

Callbacks == GatewayCallbacks \cup OtherCallbacks

\* A reconciliation that trusts the callback without recomputing its signature.
Reconcile_NoSignature(os, payload, t) ==
    LET id == findByTransaction(os, payload.transaction_uuid)
    IN IF ~payload.decodable THEN [res |-> "error", id |-> NoId, os |-> os]
       ELSE IF id = NoId THEN [res |-> "order-not-found", id |-> NoId, os |-> os]
       ELSE IF payload.total_amount # os[id].total
       THEN [res |-> "amount-mismatch", id |-> id, os |-> os]
       ELSE IF payload.status = "COMPLETE"
       THEN [res |-> "success", id |-> id,
             os |-> [os EXCEPT ![id] =
                       SaveOrder(@, @, markAsPaid(@,
                           [transactionId |-> payload.transaction_uuid,
                            refId |-> payload.transaction_code,
                            amount |-> payload.total_amount], t))]]
       ELSE [res |-> "failed", id |-> id,
             os |-> [os EXCEPT ![id] =
                       SaveOrder(@, @, [@ EXCEPT !.paymentStatus = "failed"])]]

\* A reconciliation that marks the payment failed when the amount differs.
Reconcile_FailOnMismatch(os, payload, t) ==
    LET expectedSignature == generateSignature(SignatureMessage(payload), SecretKey)
        id == findByTransaction(os, payload.transaction_uuid)
    IN IF ~payload.decodable THEN [res |-> "error", id |-> NoId, os |-> os]
       ELSE IF payload.signature # expectedSignature
       THEN [res |-> "verification-failed", id |-> NoId, os |-> os]
       ELSE IF id = NoId THEN [res |-> "order-not-found", id |-> NoId, os |-> os]
       ELSE IF payload.total_amount # os[id].total
       THEN [res |-> "amount-mismatch", id |-> id,
             os |-> [os EXCEPT ![id] =
                       SaveOrder(@, @, [@ EXCEPT !.paymentStatus = "failed"])]]
       ELSE IF payload.status = "COMPLETE"
       THEN [res |-> "success", id |-> id,
             os |-> [os EXCEPT ![id] =
                       SaveOrder(@, @, markAsPaid(@,
                           [transactionId |-> payload.transaction_uuid,
                            refId |-> payload.transaction_code,
                            amount |-> payload.total_amount], t))]]
       ELSE [res |-> "failed", id |-> id,
             os |-> [os EXCEPT ![id] =
                       SaveOrder(@, @, [@ EXCEPT !.paymentStatus = "failed"])]]

\* verifyPayment after decoding: the checks in the order the handler makes
\* them, and the document it saves.
Reconcile(os, payload, t) ==
    LET expectedSignature == generateSignature(SignatureMessage(payload), SecretKey)
        id == findByTransaction(os, payload.transaction_uuid)
    IN IF ~payload.decodable THEN [res |-> "error", id |-> NoId, os |-> os]
       ELSE IF payload.signature # expectedSignature
       THEN [res |-> "verification-failed", id |-> NoId, os |-> os]
       ELSE IF id = NoId THEN [res |-> "order-not-found", id |-> NoId, os |-> os]
       ELSE IF payload.total_amount # os[id].total
       THEN [res |-> "amount-mismatch", id |-> id, os |-> os]
       ELSE IF payload.status = "COMPLETE"
       THEN [res |-> "success", id |-> id,
             os |-> [os EXCEPT ![id] =
                       SaveOrder(@, @, markAsPaid(@,
                           [transactionId |-> payload.transaction_uuid,
                            refId |-> payload.transaction_code,
                            amount |-> payload.total_amount], t))]]
       ELSE [res |-> "failed", id |-> id,
             os |-> [os EXCEPT ![id] =
                       SaveOrder(@, @, [@ EXCEPT !.paymentStatus = "failed"])]]

verifyPayment(payload) ==
    /\ LET r == Reconcile(orders, payload, now)
       IN /\ orders' = r.os
          /\ last' = Response("verifyPayment", r.res)
    /\ UNCHANGED <<users, coupons, carts, txnCount, issued, now, reqs>>

\* A failure callback that also cancels the order.
handleFailure_Cancel(uuid) ==
    /\ LET id == IF uuid = NoId THEN NoId ELSE findByTransaction(orders, uuid)
       IN /\ orders' = IF id = NoId THEN orders
                       ELSE [orders EXCEPT ![id].paymentStatus = "failed",
                                           ![id].orderStatus = "cancelled"]
          /\ last' = Response("handleFailure", "failed")
    /\ UNCHANGED <<users, coupons, carts, txnCount, issued, now, reqs>>

\* handleFailure: the transaction id comes from an unsigned payload (NoId: none).
handleFailure(uuid) ==
    /\ LET id == IF uuid = NoId THEN NoId ELSE findByTransaction(orders, uuid)
       IN /\ orders' = IF id = NoId THEN orders
                       ELSE [orders EXCEPT ![id] =
                               SaveOrder(@, @, [@ EXCEPT !.paymentStatus = "failed"])]
          /\ last' = Response("handleFailure", "failed")
    /\ UNCHANGED <<users, coupons, carts, txnCount, issued, now, reqs>>

----------------------------------------------------------------------------
(* Rewards controller *)

\* A redemption that only asks for a positive balance.
redeemPoints_Overdraw(u, tierId) ==
    /\ LET tier == getRewardTier(tierId)
       IN IF tier.id = Null
          THEN /\ last' = Response("redeemPoints", "invalid-tier")
               /\ UNCHANGED <<users, coupons>>
          ELSE IF users[u].sweetPoints <= 0
          THEN /\ last' = Response("redeemPoints", "insufficient-points")
               /\ UNCHANGED <<users, coupons>>
          ELSE /\ Len(coupons) < MaxCoupons
               /\ coupons' = Append(coupons, NewCoupon(u, tier, now))
               /\ users' = [users EXCEPT ![u] =
                              SaveUser(@, @, RedeemOnUser(@, tier, Len(coupons) + 1))]
               /\ last' = Response("redeemPoints", "ok")
    /\ UNCHANGED <<orders, carts, txnCount, issued, now, reqs>>

redeemPoints(u, tierId) ==
    /\ LET tier == getRewardTier(tierId)
       IN IF tier.id = Null
          THEN /\ last' = Response("redeemPoints", "invalid-tier")
               /\ UNCHANGED <<users, coupons>>
          ELSE IF users[u].sweetPoints < tier.pointsCost
          THEN /\ last' = Response("redeemPoints", "insufficient-points")
               /\ UNCHANGED <<users, coupons>>
          ELSE /\ Len(coupons) < MaxCoupons
               /\ coupons' = Append(coupons, NewCoupon(u, tier, now))
               /\ users' = [users EXCEPT ![u] =
                              SaveUser(@, @, RedeemOnUser(@, tier, Len(coupons) + 1))]
               /\ last' = Response("redeemPoints", "ok")
    /\ UNCHANGED <<orders, carts, txnCount, issued, now, reqs>>

----------------------------------------------------------------------------
(* Requests that overlap: updateOrderStatus and redeemPoints step by step.
   A step runs from one await to the next; the store is read or written once
   per step, and the handler's own code runs on the documents it loaded. *)

Idle(r) == reqs[r].pc = "idle"

\* A new request takes the first free slot.
FreeSlot(r) == Idle(r) /\ \A q \in 1..MaxInFlight : q < r => ~Idle(q)

Finish(r, op, res) ==
    /\ reqs' = [reqs EXCEPT ![r] = IdleReq]
    /\ last' = Response(op, res)

\* await Order.findById(req.params.id) resolves: the guard and
\* order.updateStatus run on the loaded document without another await, so a
\* rejected request is answered here; an accepted one has issued its save().
StatusLoad(r, id, status, notes) ==
    /\ FreeSlot(r)
    /\ IF ~Exists(id)
       THEN /\ last' = Response("updateOrderStatus", "not-found")
            /\ UNCHANGED reqs
       ELSE LET res == StatusUpdate(orders[id], status, notes, now)
            IN IF res.res # "ok"
               THEN /\ last' = Response("updateOrderStatus", res.res)
                    /\ UNCHANGED reqs
               ELSE /\ reqs' = [reqs EXCEPT ![r] =
                                  [IdleReq EXCEPT !.pc = "order-saving",
                                                  !.op = "updateOrderStatus", !.id = id,
                                                  !.status = status, !.notes = notes,
                                                  !.loaded = orders[id],
                                                  !.order = res.doc]]
                    /\ UNCHANGED last
    /\ UNCHANGED <<orders, users, coupons, carts, txnCount, issued, now>>

\* The save() of order.updateStatus reaches the store; then the response, or on
\* to awardPoints.
StatusSave(r) ==
    LET q == reqs[r]
    IN /\ q.pc = "order-saving"
       /\ orders' = [orders EXCEPT ![q.id] = SaveOrder(@, q.loaded, q.order)]
       /\ IF q.status = "delivered" /\ q.loaded.orderStatus # "delivered"
          THEN /\ reqs' = [reqs EXCEPT ![r].pc = "award"]
               /\ UNCHANGED last
          ELSE Finish(r, "updateOrderStatus", "ok")
       /\ UNCHANGED <<users, coupons, carts, txnCount, issued, now>>

\* awardPoints: await User.findById(userId)
AwardLoad(r) ==
    /\ reqs[r].pc = "award"
    /\ reqs' = [reqs EXCEPT ![r].pc = "award-user-loaded",
                            ![r].user = users[reqs[r].order.user]]
    /\ UNCHANGED <<orders, users, coupons, carts, txnCount, issued, now, last>>

\* awardPoints: await Order.countDocuments(...)
AwardCount(r) ==
    /\ reqs[r].pc = "award-user-loaded"
    /\ reqs' = [reqs EXCEPT ![r].pc = "award-counted",
                            ![r].first = (countNonCancelled(orders, reqs[r].order.user) = 1)]
    /\ UNCHANGED <<orders, users, coupons, carts, txnCount, issued, now, last>>

\* awardPoints: await user.save(); then updateOrderStatus answers.
AwardSave(r) ==
    LET q == reqs[r]
        u == q.order.user
    IN /\ q.pc = "award-counted"
       /\ users' = [users EXCEPT ![u] =
                      SaveUser(@, q.user, AwardOnUser(q.user, q.id, q.order.total, q.first))]
       /\ Finish(r, "updateOrderStatus", "ok")
       /\ UNCHANGED <<orders, coupons, carts, txnCount, issued, now>>

\* redeemPoints: await User.findById, then the balance check on the loaded user.
RedeemLoad(r, u, tierId) ==
    LET tier == getRewardTier(tierId)
    IN /\ FreeSlot(r)
       /\ IF tier.id = Null
          THEN /\ last' = Response("redeemPoints", "invalid-tier")
               /\ UNCHANGED reqs
          ELSE IF users[u].sweetPoints < tier.pointsCost
          THEN /\ last' = Response("redeemPoints", "insufficient-points")
               /\ UNCHANGED reqs
          ELSE /\ reqs' = [reqs EXCEPT ![r] =
                             [IdleReq EXCEPT !.pc = "redeem-checked", !.op = "redeemPoints",
                                             !.id = u, !.tier = tier, !.user = users[u]]]
               /\ UNCHANGED last
       /\ UNCHANGED <<orders, users, coupons, carts, txnCount, issued, now>>

\* redeemPoints: await Coupon.create(...)
RedeemCreate(r) ==
    LET q == reqs[r]
    IN /\ q.pc = "redeem-checked"
       /\ Len(coupons) < MaxCoupons
       /\ coupons' = Append(coupons, NewCoupon(q.id, q.tier, now))
       /\ reqs' = [reqs EXCEPT ![r].pc = "coupon-created", ![r].coupon = Len(coupons) + 1]
       /\ UNCHANGED <<orders, users, carts, txnCount, issued, now, last>>

\* redeemPoints: await user.save(), then the response.
RedeemSave(r) ==
    LET q == reqs[r]
    IN /\ q.pc = "coupon-created"
       /\ users' = [users EXCEPT ![q.id] =
                      SaveUser(@, q.user, RedeemOnUser(q.user, q.tier, q.coupon))]
       /\ Finish(r, "redeemPoints", "ok")
       /\ UNCHANGED <<orders, coupons, carts, txnCount, issued, now>>

----------------------------------------------------------------------------
(* Coupons (model/Coupon.js, controller/rewardsController.js) *)

MaxDay == 30
SleepDays == {15}

\* Days pass between requests: tier validity is counted in days.
Sleep(days) ==
    /\ now + days <= MaxDay
    /\ now' = now + days
    /\ UNCHANGED <<orders, users, coupons, carts, txnCount, issued, last, reqs>>

\* The code generateCouponCode gave coupon c: 'SWEET' and six random
\* characters, one code per coupon (the code index is unique).
CouponCode(c) ==
    CASE c = 1 -> "SWEETA1B2C3"
      [] c = 2 -> "SWEETX9Y8Z7"
      [] OTHER -> "SWEETQ4R5S6"

CouponCodes == {CouponCode(c) : c \in 1..MaxCoupons}

\* Coupon.findOne({ code, user }): NoId when there is none.
findCoupon(cs, code, u) ==
    LET found == {c \in DOMAIN cs : CouponCode(c) = code /\ cs[c].user = u}
    IN IF found = {} THEN NoId ELSE CHOOSE c \in found : TRUE

\* coupon.isValid()
isValid(coupon, t) == ~coupon.isUsed /\ t < coupon.expiresAt

\* validateCoupon: GET /api/rewards/validate/:code reads the caller's coupon
\* and answers; it reads no cart and writes nothing.
validateCoupon(u, code) ==
    /\ LET c == findCoupon(coupons, code, u)
       IN last' = Response("validateCoupon",
                     IF c = NoId THEN "not-found"
                     ELSE IF coupons[c].expiresAt <= now THEN "expired"
                     ELSE IF coupons[c].isUsed THEN "used"
                     ELSE "ok")
    /\ UNCHANGED <<orders, users, coupons, carts, txnCount, issued, now, reqs>>

\* coupon.markAsUsed(orderId): three assignments and a save.
markAsUsed(c, orderId) ==
    /\ c \in DOMAIN coupons
    /\ coupons' = [coupons EXCEPT ![c] =
                     [@ EXCEPT !.isUsed = TRUE, !.usedAt = now, !.usedInOrder = orderId]]
    /\ last' = Response("markAsUsed", "ok")
    /\ UNCHANGED <<orders, users, carts, txnCount, issued, now, reqs>>

\* What can go wrong in redeemPoints after Coupon.create: user.save() rejects.
RedeemFaults == {"none", "save-error"}

\* redeemPoints with the outcome of user.save() as an input.  The coupon is
\* created first; a rejected save() leaves the handler through its error path
\* (asyncHandler, or the catch block that answers 500), which removes nothing.
redeemPointsFaulty(u, tierId, fault) ==
    /\ LET tier == getRewardTier(tierId)
       IN IF tier.id = Null
          THEN /\ last' = Response("redeemPoints", "invalid-tier")
               /\ UNCHANGED <<users, coupons>>
          ELSE IF users[u].sweetPoints < tier.pointsCost
          THEN /\ last' = Response("redeemPoints", "insufficient-points")
               /\ UNCHANGED <<users, coupons>>
          ELSE /\ Len(coupons) < MaxCoupons
               /\ coupons' = Append(coupons, NewCoupon(u, tier, now))
               /\ IF fault = "none"
                  THEN /\ users' = [users EXCEPT ![u] =
                              SaveUser(@, @, RedeemOnUser(@, tier, Len(coupons) + 1))]
                       /\ last' = Response("redeemPoints", "ok")
                  ELSE /\ users' = users
                       /\ last' = Response("redeemPoints", "error")
    /\ UNCHANGED <<orders, carts, txnCount, issued, now, reqs>>

----------------------------------------------------------------------------
(* Checkout with the requested delivery date (model/Order.js pre-save hook).
   In the specification that uses these actions the clock counts hours from a
   midnight, and a delivery date is an hour on the same scale. *)

MaxHour == 26
DeliveryDates == 0..(MaxHour + 24)

\* An hour passes between requests.
HourPasses ==
    /\ now < MaxHour
    /\ now' = now + 1
    /\ UNCHANGED <<orders, users, coupons, carts, txnCount, issued, last, reqs>>

\* minDate of the pre-save hook: the day after t, at 00:00.
minDate(t) == ((t \div 24) + 1) * 24

\* createOrder with deliverySchedule.date as an input: Order.create validates
\* the document and then runs the pre-save hook, which throws when the date is
\* before minDate; nothing is stored and the cart is kept in that case.
createOrderOn(u, paymentMethod, date, limit) ==
    /\ IF carts[u].items = <<>>
       THEN /\ last' = Response("createOrder", "cart-empty")
            /\ UNCHANGED <<orders, carts>>
       ELSE IF ~ValidOrder(NewOrder(u, carts[u], paymentMethod))
       THEN /\ last' = Response("createOrder", "validation-error")
            /\ UNCHANGED <<orders, carts>>
       ELSE IF date < minDate(now)
       THEN /\ last' = Response("createOrder", "delivery-date-error")
            /\ UNCHANGED <<orders, carts>>
       ELSE /\ Len(orders) < limit
            /\ orders' = Append(orders, NewOrder(u, carts[u], paymentMethod))
            /\ carts' = IF paymentMethod = "cod"
                        THEN [carts EXCEPT ![u].items = <<>>, ![u].promoCode = NoPromo]
                        ELSE carts
            /\ last' = Response("createOrder", "ok")
    /\ UNCHANGED <<users, coupons, txnCount, issued, now, reqs>>

----------------------------------------------------------------------------
(* Checkouts that overlap: createOrder step by step, with the order number
   (model/Order.js generateOrderNumber and the unique index on orderNumber). *)

MaxNumbers == 2

\* The numbers Math.random() can produce: 'SN-1000' .. 'SN-9999' in the code.
OrderNumbers == 1..MaxNumbers

\* The stored document: the order as built from the cart, with its number.
NumberedOrder(order, orderNumber) ==
    [f \in DOMAIN order \cup {"orderNumber"} |->
        IF f = "orderNumber" THEN orderNumber ELSE order[f]]

\* Order.findOne({ orderNumber })
numberExists(os, orderNumber) ==
    \E i \in DOMAIN os : os[i].orderNumber = orderNumber

\* await Cart.findOne({ user }) resolves: an empty cart is answered here;
\* otherwise the order is built from the cart as loaded.
CheckoutLoad(r, u, paymentMethod) ==
    /\ FreeSlot(r)
    /\ IF carts[u].items = <<>>
       THEN /\ last' = Response("createOrder", "cart-empty")
            /\ UNCHANGED reqs
       ELSE /\ reqs' = [reqs EXCEPT ![r] =
                          [IdleReq EXCEPT !.pc = "numbering", !.op = "createOrder",
                                          !.order = NewOrder(u, carts[u], paymentMethod)]]
            /\ UNCHANGED last
    /\ UNCHANGED <<orders, users, coupons, carts, txnCount, issued, now>>

\* One turn of generateOrderNumber's loop: a random candidate, and
\* await this.findOne({ orderNumber }) resolves; a number in use is drawn again.
CheckoutNumber(r, candidate) ==
    /\ reqs[r].pc = "numbering"
    /\ reqs' = IF numberExists(orders, candidate)
               THEN reqs
               ELSE [reqs EXCEPT ![r].pc = "creating", ![r].orderNumber = candidate]
    /\ UNCHANGED <<orders, users, coupons, carts, txnCount, issued, now, last>>

\* An Order.create that inserts whatever number it was given.
CheckoutCreate_NoIndex(r) ==
    LET q == reqs[r]
    IN /\ q.pc = "creating"
       /\ Len(orders) < MaxOrders
       /\ orders' = Append(orders, NumberedOrder(q.order, q.orderNumber))
       /\ IF q.order.paymentMethod = "cod"
          THEN /\ reqs' = [reqs EXCEPT ![r].pc = "clearing"]
               /\ UNCHANGED last
          ELSE Finish(r, "createOrder", "ok")
       /\ UNCHANGED <<users, coupons, carts, txnCount, issued, now>>

\* await Order.create(...) resolves: the insert is refused by the unique index
\* when a stored order has the number (duplicate key error, answered 500);
\* otherwise the order is stored, and a cash order goes on to clear the cart.
CheckoutCreate(r) ==
    LET q == reqs[r]
    IN /\ q.pc = "creating"
       /\ IF numberExists(orders, q.orderNumber)
          THEN /\ Finish(r, "createOrder", "duplicate-key")
               /\ UNCHANGED orders
          ELSE /\ Len(orders) < MaxOrders
               /\ orders' = Append(orders, NumberedOrder(q.order, q.orderNumber))
               /\ IF q.order.paymentMethod = "cod"
                  THEN /\ reqs' = [reqs EXCEPT ![r].pc = "clearing"]
                       /\ UNCHANGED last
                  ELSE Finish(r, "createOrder", "ok")
       /\ UNCHANGED <<users, coupons, carts, txnCount, issued, now>>

\* await Cart.findOneAndUpdate({ user }, { items: [], promoCode: null })
CheckoutClear(r) ==
    LET q == reqs[r]
    IN /\ q.pc = "clearing"
       /\ carts' = [carts EXCEPT ![q.order.user].items = <<>>,
                                 ![q.order.user].promoCode = NoPromo]
       /\ Finish(r, "createOrder", "ok")
       /\ UNCHANGED <<orders, users, coupons, txnCount, issued, now>>

----------------------------------------------------------------------------
(* The store after start-up: no orders, no coupons, every customer registered
   with an empty cart and no points. *)

Init ==
    /\ orders = <<>>
    /\ users = [u \in Users |-> NewUser]
    /\ coupons = <<>>
    /\ carts = [u \in Users |-> EmptyCart]
    /\ txnCount = 0
    /\ issued = [x \in TxnIds |-> NoId]
    /\ now = 0
    /\ last = Response("start", "ok")
    /\ reqs = [r \in 1..MaxInFlight |-> IdleReq]

----------------------------------------------------------------------------
(* Requests served one after the other *)

Next ==
    \/ Tick
    \/ \E u \in Users, p \in WeightPrices, q \in 1..MaxQty : AddToCart(u, p, q)
    \/ \E u \in Users, m \in PaymentMethods : createOrder(u, m, MaxOrders - 1)
    \/ \E id \in OrderIds, s \in OrderStatuses, n \in Notes : updateOrderStatus(id, s, n)
    \/ \E a \in Actors, id \in OrderIds : cancelOrder(a, id, "reason")
    \/ \E id \in OrderIds : processRefund(id)
    \/ \E a \in Users, id \in OrderIds : initiatePayment(a, id)
    \/ \E p \in Callbacks : verifyPayment(p)
    \/ \E x \in TxnIds \cup {NoId} : handleFailure(x)
    \/ \E u \in Users, tierId \in RewardTierIds \cup {"diamond"} : redeemPoints(u, tierId)

Spec == Init /\ [][Next]_vars

----------------------------------------------------------------------------
(* Requests served one after the other, two orders: the inputs that only
   vary an order's notes, timestamps and rejected callbacks are left out. *)

PairNext ==
    \/ \E u \in Users, p \in WeightPrices : AddToCart(u, p, MaxQty)
    \/ \E u \in Users, m \in PaymentMethods : createOrder(u, m, MaxOrders)
    \/ \E id \in OrderIds, s \in OrderStatuses : updateOrderStatus(id, s, "")
    \/ \E id \in OrderIds : Exists(id) /\ cancelOrder(orders[id].user, id, "reason")
    \/ \E a \in Users, id \in OrderIds : initiatePayment(a, id)
    \/ \E p \in GatewayCallbacks : verifyPayment(p)
    \/ \E x \in TxnIds : handleFailure(x)
    \/ \E u \in Users, tierId \in RewardTierIds : redeemPoints(u, tierId)

PairSpec == Init /\ [][PairNext]_vars

----------------------------------------------------------------------------
(* Requests that overlap: up to MaxInFlight status updates and redemptions in
   flight, each advancing one await at a time. *)

ConcNext ==
    \/ \E u \in Users, p \in WeightPrices : AddToCart(u, p, MaxQty)
    \/ \E u \in Users, m \in PaymentMethods : createOrder(u, m, MaxOrders - 1)
    \/ \E r \in 1..MaxInFlight, id \in OrderIds, s \in OrderStatuses :
          StatusLoad(r, id, s, "")
    \/ \E r \in 1..MaxInFlight : StatusSave(r)
    \/ \E r \in 1..MaxInFlight : AwardLoad(r)
    \/ \E r \in 1..MaxInFlight : AwardCount(r)
    \/ \E r \in 1..MaxInFlight : AwardSave(r)
    \/ \E r \in 1..MaxInFlight, u \in Users, tierId \in RewardTierIds :
          RedeemLoad(r, u, tierId)
    \/ \E r \in 1..MaxInFlight : RedeemCreate(r)
    \/ \E r \in 1..MaxInFlight : RedeemSave(r)

ConcSpec == Init /\ [][ConcNext]_vars

----------------------------------------------------------------------------
(* Checkout from every cart: the catalogue's prices, the delivery types and
   the promo codes a cart can hold, up to one order. *)

CatalogPrices == {30, 500}
PromoInputs == {"SWEET10", "FLAT50", "BOGUS"}
DeliveryInputs == {"delivery", "pickup", "drone"}

CartNext ==
    \/ \E u \in Users, p \in CatalogPrices, q \in 1..MaxQty : AddToCart(u, p, q)
    \/ \E u \in Users, d \in DeliveryInputs : updateDeliveryType(u, d)
    \/ \E u \in Users, code \in PromoInputs : applyPromoCode(u, code)
    \/ \E u \in Users : removePromoCode(u)
    \/ \E u \in Users, m \in PaymentMethods : createOrder(u, m, MaxOrders - 1)

CartSpec == Init /\ [][CartNext]_vars

----------------------------------------------------------------------------
(* The life of one order whose items were priced from a catalogue that
   changes: every operation that follows checkout, and the cart edited on. *)

FrozenNext ==
    \/ \E u \in Users, p \in CatalogPrices : AddToCart(u, p, MaxQty)
    \/ \E u \in Users, code \in PromoInputs : applyPromoCode(u, code)
    \/ \E u \in Users, m \in PaymentMethods : createOrder(u, m, MaxOrders - 1)
    \/ \E id \in OrderIds, s \in OrderStatuses : updateOrderStatus(id, s, "")
    \/ \E id \in OrderIds : Exists(id) /\ cancelOrder(orders[id].user, id, "reason")
    \/ \E a \in Users, id \in OrderIds : initiatePayment(a, id)
    \/ \E p \in GatewayCallbacks : verifyPayment(p)
    \/ \E x \in TxnIds : handleFailure(x)

FrozenSpec == Init /\ [][FrozenNext]_vars

----------------------------------------------------------------------------
(* Awards: cash-on-delivery orders carried to delivery while awardPoints may
   fail, and awardPoints called with the order amounts around its thresholds. *)

OrderAmounts == {0, 9, 10, 999, 1000, 1200, 1999, 2000, 4999, 5000}

AwardNext ==
    \/ \E u \in Users, p \in WeightPrices : AddToCart(u, p, MaxQty)
    \/ \E u \in Users : createOrder(u, "cod", MaxOrders - 1)
    \/ \E id \in OrderIds, s \in OrderStatuses, f \in AwardFaults :
          updateOrderStatusFaulty(id, s, "", f)
    \/ \E id \in OrderIds : Exists(id) /\ cancelOrder(orders[id].user, id, "reason")
    \/ \E u \in Users, id \in OrderIds, a \in OrderAmounts, f \in AwardFaults :
          awardPoints(u, id, a, f)

AwardSpec == Init /\ [][AwardNext]_vars

----------------------------------------------------------------------------
(* Coupons: points earned, redeemed while user.save() may fail, and the
   coupons validated, marked used and offered to the cart as promo codes while
   days pass. *)

CouponAwards == {1000}

CouponNext ==
    \/ \E d \in SleepDays : Sleep(d)
    \/ \E u \in Users, p \in WeightPrices, q \in 1..MaxQty : AddToCart(u, p, q)
    \/ \E u \in Users, id \in OrderIds, a \in CouponAwards : awardPoints(u, id, a, "none")
    \/ \E u \in Users, tierId \in RewardTierIds, f \in RedeemFaults :
          redeemPointsFaulty(u, tierId, f)
    \/ \E u \in Users, code \in CouponCodes : validateCoupon(u, code)
    \/ \E c \in 1..MaxCoupons, id \in OrderIds : markAsUsed(c, id)
    \/ \E u \in Users, code \in CouponCodes \cup {"SWEET10"} : applyPromoCode(u, code)

CouponSpec == Init /\ [][CouponNext]_vars

----------------------------------------------------------------------------
(* Checkout at every hour of a day and into the next, for every delivery
   date up to a day after the last hour. *)

ScheduleNext ==
    \/ HourPasses
    \/ \E u \in Users, p \in WeightPrices : AddToCart(u, p, MaxQty)
    \/ \E u \in Users, m \in PaymentMethods, d \in DeliveryDates :
          createOrderOn(u, m, d, MaxOrders - 1)

ScheduleSpec == Init /\ [][ScheduleNext]_vars

----------------------------------------------------------------------------
(* Checkouts that overlap, drawing order numbers from a small range so that
   two of them meet on one number. *)

NumberNext ==
    \/ \E u \in Users, p \in WeightPrices : AddToCart(u, p, MaxQty)
    \/ \E r \in 1..MaxInFlight, u \in Users, m \in PaymentMethods : CheckoutLoad(r, u, m)
    \/ \E r \in 1..MaxInFlight, n \in OrderNumbers : CheckoutNumber(r, n)
    \/ \E r \in 1..MaxInFlight : CheckoutCreate(r)
    \/ \E r \in 1..MaxInFlight : CheckoutClear(r)

NumberSpec == Init /\ [][NumberNext]_vars

----------------------------------------------------------------------------
(* Properties *)

\* The transition table as the documentation states it.
LegalTransitions ==
    {<<"pending", "confirmed">>, <<"pending", "cancelled">>,
     <<"confirmed", "processing">>, <<"confirmed", "cancelled">>,
     <<"processing", "out_for_delivery">>, <<"processing", "cancelled">>,
     <<"out_for_delivery", "delivered">>}

\* C1: a status update that reaches Order.updateStatus (the order exists and
\* the failed-payment guard lets it through) succeeds exactly when the target
\* is in the table for the order's current status, and then the order has the
\* target status; otherwise it raises the invalid-transition error and the
\* order's status stays as it was.
C1_TransitionTable ==
    [][last'.op = "updateOrderStatus" =>
         \A id \in DOMAIN orders, s \in OrderStatuses, n \in Notes :
            (/\ updateOrderStatus(id, s, n)
             /\ ~(orders[id].paymentStatus = "failed" /\ s # "cancelled"))
            => IF <<orders[id].orderStatus, s>> \in LegalTransitions
               THEN last'.res = "ok" /\ orders'[id].orderStatus = s
               ELSE /\ last'.res = "invalid-transition"
                    /\ orders'[id].orderStatus = orders[id].orderStatus]_vars

\* C1 witness: a request to skip ahead from pending was rejected.
C1_Witness ==
    /\ last = Response("updateOrderStatus", "invalid-transition")
    /\ \E id \in DOMAIN orders : orders[id].orderStatus = "pending"

\* The 'earned' ledger entries a customer holds for one order.
EarnedFor(u, id) ==
    {k \in DOMAIN users[u].pointsHistory :
        /\ users[u].pointsHistory[k].type = "earned"
        /\ users[u].pointsHistory[k].relatedOrder = id}

\* C2: an order never has more than one 'earned' ledger entry, whichever way
\* status updates on it overlap.
C2_SingleAward ==
    \A u \in Users, id \in OrderIds : Cardinality(EarnedFor(u, id)) <= 1

\* The checks the documentation requires of a callback before an order is paid.
Genuine(p) ==
    /\ p.decodable
    /\ p.signature = generateSignature(SignatureMessage(p), SecretKey)

Accepted(p, id) ==
    /\ Genuine(p)
    /\ findByTransaction(orders, p.transaction_uuid) = id
    /\ p.total_amount = orders[id].total
    /\ p.status = "COMPLETE"

\* The callback passes the signature check, the lookup and the amount check.
Checked(p) ==
    LET id == findByTransaction(orders, p.transaction_uuid)
    IN Genuine(p) /\ id # NoId /\ p.total_amount = orders[id].total

\* C3: an order's paymentStatus becomes paid only in a verifyPayment step whose
\* callback carries the gateway's signature, names the order's stored
\* transaction id, declares the order's total and reports COMPLETE; and in
\* every state, for every callback, the handler checks the signature before
\* the lookup and the lookup before the amount, writes only when all three
\* pass, and writes nothing when a check fails or the data does not decode.
C3_PaidOnlyByVerifiedCallback ==
    /\ [](\A p \in Callbacks :
             LET r == Reconcile(orders, p, now)
             IN /\ r.res = "order-not-found" => Genuine(p)
                /\ r.res = "amount-mismatch" => Genuine(p) /\ r.id # NoId
                /\ r.res \in {"success", "failed"} => Checked(p)
                /\ r.res \notin {"success", "failed"} => r.os = orders)
    /\ [][\A id \in DOMAIN orders :
            (orders[id].paymentStatus # "paid" /\ orders'[id].paymentStatus = "paid")
            => /\ \E p \in Callbacks : verifyPayment(p)
               /\ \A p \in Callbacks : verifyPayment(p) => Accepted(p, id)]_vars

\* C3 witness: a verified callback has paid an order.
C3_Witness ==
    /\ last = Response("verifyPayment", "success")
    /\ \E id \in DOMAIN orders :
          orders[id].paymentStatus = "paid" /\ orders[id].esewa.refId = "REF"

\* C4: a verified COMPLETE callback for an order that is already paid changes
\* nothing of the order, esewa.paidAt included.
C4_ReplayIsNoOp ==
    [][(last'.op = "verifyPayment" /\ last'.res = "success") =>
         \A id \in DOMAIN orders, p \in GatewayCallbacks :
            (orders[id].paymentStatus = "paid" /\ Accepted(p, id) /\ verifyPayment(p))
            => orders'[id] = orders[id]]_vars

\* C5: a customer's balance is the sum of the amounts of the customer's ledger
\* entries, after any sequence of awards and redemptions.
HistoryAmounts(u) ==
    [k \in DOMAIN users[u].pointsHistory |-> users[u].pointsHistory[k].amount]

C5_BalanceIsLedgerSum ==
    \A u \in Users : users[u].sweetPoints = SumSeq(HistoryAmounts(u))

\* C5 witness: a customer has been awarded twice and has redeemed.
C5_Witness ==
    \E u \in Users :
       /\ Cardinality({k \in DOMAIN users[u].pointsHistory :
                          users[u].pointsHistory[k].type = "earned"}) = 2
       /\ \E k \in DOMAIN users[u].pointsHistory :
             users[u].pointsHistory[k].type = "redeemed"
       /\ users[u].sweetPoints > 0

\* What a customer's coupons cost, and what the customer was awarded.
CouponCosts(u) ==
    LET cost(k) == IF coupons[k].user = u THEN coupons[k].pointsCost ELSE 0
    IN SumSeq([k \in DOMAIN coupons |-> cost(k)])

AwardedTotal(u) ==
    LET earned(k) == IF users[u].pointsHistory[k].type = "earned"
                     THEN users[u].pointsHistory[k].amount ELSE 0
    IN SumSeq([k \in DOMAIN users[u].pointsHistory |-> earned(k)])

\* C6: once the overlapping awards and redemptions on a customer have all
\* answered, the balance is what running them one after another leaves: the
\* points awarded less the cost of every coupon issued, and never negative.
C6_SerializedLedger ==
    (\A r \in 1..MaxInFlight : Idle(r)) =>
       \A u \in Users :
          /\ users[u].sweetPoints = AwardedTotal(u) - CouponCosts(u)
          /\ AwardedTotal(u) - CouponCosts(u) >= 0

C8_FailedPaymentGuard ==
    [][last'.op = "updateOrderStatus" =>
         \A id \in DOMAIN orders, s \in OrderStatuses, n \in Notes :
            (updateOrderStatus(id, s, n) /\ orders[id].paymentStatus = "failed")
            => IF s # "cancelled"
               THEN last'.res = "payment-failed" /\ orders' = orders /\ users' = users
               ELSE last'.res =
                      IF <<orders[id].orderStatus, s>> \in LegalTransitions
                      THEN "ok" ELSE "invalid-transition"]_vars

\* C8 witness: an update was refused for a failed payment on an order whose
\* status would have allowed it.
C8_Witness ==
    /\ last = Response("updateOrderStatus", "payment-failed")
    /\ \E id \in DOMAIN orders :
          orders[id].paymentStatus = "failed" /\ orders[id].orderStatus = "pending"

\* C9: every transaction id that initiatePayment issued for an order is found
\* by the callback's lookup, and the order found is that order.
C9_IssuedIdFindsItsOrder ==
    \A x \in TxnIds :
       issued[x] # NoId => findByTransaction(orders, x) = issued[x]

\* C10: a rejection writes nothing: a callback with a wrong signature or a
\* wrong amount leaves every order as it was, a status request outside the
\* table leaves the order and the ledger as they were, and a redemption with
\* too few points leaves the customer and the coupons as they were.
C10_RejectionsWriteNothing ==
    [][/\ (last'.op = "verifyPayment" /\ orders' # orders) =>
            \A p \in Callbacks : verifyPayment(p) => Checked(p)
       /\ last'.op = "updateOrderStatus" =>
            \A id \in DOMAIN orders, s \in OrderStatuses, n \in Notes :
               (updateOrderStatus(id, s, n)
                /\ <<orders[id].orderStatus, s>> \notin LegalTransitions)
               => last'.res # "ok" /\ orders' = orders /\ users' = users
       /\ last'.op = "cancelOrder" =>
            \A a \in Actors, id \in DOMAIN orders :
               (cancelOrder(a, id, "reason")
                /\ <<orders[id].orderStatus, "cancelled">> \notin LegalTransitions)
               => last'.res # "ok" /\ orders' = orders
       /\ last'.op = "redeemPoints" =>
            \A u \in Users, tierId \in RewardTierIds :
               (redeemPoints(u, tierId)
                /\ users[u].sweetPoints < getRewardTier(tierId).pointsCost)
               => /\ last'.res = "insufficient-points"
                  /\ users' = users /\ coupons' = coupons]_vars

\* C10 witness: a correctly signed callback declaring the wrong amount was
\* turned away from an order awaiting payment.
C10_Witness ==
    /\ last = Response("verifyPayment", "amount-mismatch")
    /\ \E id \in DOMAIN orders :
          orders[id].esewa.transactionId # NoId /\ orders[id].paymentStatus = "pending"

\* C11: a correctly signed callback that names an order and declares another
\* total than the order's leaves that order with paymentStatus failed.
C11_MismatchMarksFailed ==
    [][(last'.op = "verifyPayment" /\ last'.res = "amount-mismatch") =>
         \A p \in GatewayCallbacks, id \in DOMAIN orders :
            (/\ findByTransaction(orders, p.transaction_uuid) = id
             /\ p.total_amount # orders[id].total
             /\ verifyPayment(p))
            => orders'[id].paymentStatus = "failed"]_vars

\* C12: a verified COMPLETE callback leaves its order paid, with the gateway
\* details of the callback and the time of the call, and with orderStatus
\* confirmed if it was pending and as it was otherwise; and no step changes an
\* order's orderStatus except a status update, a cancellation, or that
\* callback confirming a pending order.
C12_PaidAndAutoConfirm ==
    [][/\ (last'.op = "verifyPayment" /\ last'.res = "success") =>
            \A p \in Callbacks, id \in DOMAIN orders :
               (Accepted(p, id) /\ verifyPayment(p))
               => orders'[id] =
                    [orders[id] EXCEPT
                       !.paymentStatus = "paid",
                       !.esewa = [transactionId |-> p.transaction_uuid,
                                  refId |-> p.transaction_code,
                                  amount |-> p.total_amount,
                                  paidAt |-> now],
                       !.orderStatus = IF @ = "pending" THEN "confirmed" ELSE @]
       /\ \A id \in DOMAIN orders :
             orders'[id].orderStatus # orders[id].orderStatus
             => \/ last'.op \in {"updateOrderStatus", "cancelOrder"}
                \/ /\ last' = Response("verifyPayment", "success")
                   /\ orders[id].orderStatus = "pending"
                   /\ orders'[id].orderStatus = "confirmed"]_vars

\* C12 witness: a verified COMPLETE callback has paid an order that was
\* already in processing, and the order is still in processing.
C12_Witness ==
    /\ last = Response("verifyPayment", "success")
    /\ \E id \in DOMAIN orders :
          orders[id].paymentStatus = "paid" /\ orders[id].orderStatus = "processing"

\* C13: checkout with the gateway leaves the cart's items in place, and the
\* verified COMPLETE callback with the order's total empties the owner's cart.
C13_CallbackEmptiesCart ==
    [][/\ last' = Response("createOrder", "ok") =>
            \A u \in Users :
               createOrder(u, "esewa", MaxOrders - 1) => carts'[u] = carts[u]
       /\ last' = Response("verifyPayment", "success") =>
            \A p \in GatewayCallbacks, id \in DOMAIN orders :
               (Accepted(p, id) /\ verifyPayment(p))
               => carts'[orders[id].user].items = <<>>]_vars

\* C15: a failure callback that names an order, and a verified callback whose
\* status is not COMPLETE, set the order's paymentStatus to failed and change
\* nothing else of the order, its orderStatus included.
C15_FailureKeepsOrderStatus ==
    [][/\ last' = Response("verifyPayment", "failed") =>
            \A p \in Callbacks, id \in DOMAIN orders :
               (/\ Checked(p)
                /\ findByTransaction(orders, p.transaction_uuid) = id
                /\ p.status # "COMPLETE"
                /\ verifyPayment(p))
               => orders'[id] = [orders[id] EXCEPT !.paymentStatus = "failed"]
       /\ last'.op = "handleFailure" =>
            \A x \in TxnIds, id \in DOMAIN orders :
               (findByTransaction(orders, x) = id /\ handleFailure(x))
               => orders'[id] = [orders[id] EXCEPT !.paymentStatus = "failed"]]_vars

\* C15 witness: the failure callback has marked a pending order's payment failed.
C15_Witness ==
    /\ last = Response("handleFailure", "failed")
    /\ \E id \in DOMAIN orders :
          orders[id].paymentStatus = "failed" /\ orders[id].orderStatus = "pending"

\* C18: a redemption of a tier that costs more than the customer's balance is
\* refused, and the balance, the history and the coupons stay as they were.
C18_RedeemRejected ==
    [][last'.op = "redeemPoints" =>
         \A u \in Users, tierId \in RewardTierIds :
            (/\ getRewardTier(tierId).pointsCost > users[u].sweetPoints
             /\ redeemPoints(u, tierId))
            => /\ last'.res = "insufficient-points"
               /\ users'[u].sweetPoints = users[u].sweetPoints
               /\ users'[u].pointsHistory = users[u].pointsHistory
               /\ coupons' = coupons]_vars

\* C18 witness: a customer whose balance covers the 100-point tier but not the
\* 250-point tier was refused.
C18_Witness ==
    /\ last = Response("redeemPoints", "insufficient-points")
    /\ \E u \in Users : users[u].sweetPoints >= 100 /\ users[u].sweetPoints < 250

\* C14: a checkout that creates an order leaves, for cash on delivery, the
\* order confirmed with payment pending and the cart without items and
\* without promo code; for the gateway, the order pending with payment pending
\* and the cart as it was.
C14_CheckoutSideEffects ==
    [][last' = Response("createOrder", "ok") =>
         \A u \in Users, m \in PaymentMethods :
            createOrder(u, m, MaxOrders - 1) =>
               LET o == orders'[Len(orders')]
               IN /\ Len(orders') = Len(orders) + 1
                  /\ o.user = u /\ o.paymentMethod = m
                  /\ o.paymentStatus = "pending"
                  /\ IF m = "cod"
                     THEN /\ o.orderStatus = "confirmed"
                          /\ carts'[u].items = <<>>
                          /\ carts'[u].promoCode = NoPromo
                     ELSE /\ o.orderStatus = "pending"
                          /\ carts'[u] = carts[u]]_vars

\* C14 witness: a cash-on-delivery checkout from a cart with a promo code has
\* left the cart without items and without promo code.
C14_Witness ==
    /\ last = Response("createOrder", "ok")
    /\ \E id \in DOMAIN orders :
          /\ orders[id].paymentMethod = "cod"
          /\ orders[id].promoCode.code = "FLAT50"
          /\ carts[orders[id].user].items = <<>>
          /\ carts[orders[id].user].promoCode = NoPromo

\* The totals of a cart, worked out from its lines, delivery type and promo code.
LinesTotal(items) == SumSeq([i \in DOMAIN items |-> items[i].price * items[i].quantity])

ExpectedDiscount(cart) ==
    IF cart.promoCode.code = "SWEET10" THEN RoundDiv(LinesTotal(cart.items) * 10, 100)
    ELSE IF cart.promoCode.code = "FLAT50" THEN 50
    ELSE 0

ExpectedTotal(cart) ==
    LinesTotal(cart.items) + (IF cart.deliveryType = "pickup" THEN 0 ELSE 100)
    - ExpectedDiscount(cart)

\* C16: every order has total = subtotal + shipping - discount with all four
\* non-negative, and a checkout that creates an order gives it the total the
\* cart has at that moment.
C16_OrderTotals ==
    /\ [](\A id \in DOMAIN orders :
             /\ orders[id].total =
                  orders[id].subtotal + orders[id].shipping - orders[id].discount
             /\ orders[id].subtotal >= 0 /\ orders[id].shipping >= 0
             /\ orders[id].discount >= 0 /\ orders[id].total >= 0)
    /\ [][last' = Response("createOrder", "ok") =>
            \A u \in Users, m \in PaymentMethods :
               createOrder(u, m, MaxOrders - 1) =>
                  /\ orders'[Len(orders')].total = ExpectedTotal(carts[u])
                  /\ orders'[Len(orders')].total = CartTotal(carts[u])]_vars

\* C16 witness: an order from a picked-up cart with the percentage promo code.
C16_Witness ==
    \E id \in DOMAIN orders :
       /\ orders[id].shipping = 0
       /\ orders[id].promoCode.code = "SWEET10"
       /\ orders[id].discount > 0

\* C17: every item of every order has itemTotal = price x quantity, and no
\* step changes an order's items or its subtotal, shipping, discount or total.
C17_FrozenOrder ==
    /\ [](\A id \in DOMAIN orders : \A i \in DOMAIN orders[id].items :
             orders[id].items[i].itemTotal =
                orders[id].items[i].price * orders[id].items[i].quantity)
    /\ [][\A id \in DOMAIN orders :
             /\ orders'[id].items = orders[id].items
             /\ orders'[id].subtotal = orders[id].subtotal
             /\ orders'[id].shipping = orders[id].shipping
             /\ orders'[id].discount = orders[id].discount
             /\ orders'[id].total = orders[id].total]_vars

\* C17 witness: a delivered cash-on-delivery order, while the cart has since
\* been filled again at another catalogue price.
C17_Witness ==
    \E id \in DOMAIN orders :
       /\ orders[id].paymentMethod = "cod"
       /\ orders[id].orderStatus = "delivered"
       /\ carts[orders[id].user].items # <<>>
       /\ carts[orders[id].user].items[1].price # orders[id].items[1].price

\* The points the documentation gives for an order amount.
ExpectedPoints(a, first) ==
    (a \div 10) + (IF first THEN 50 ELSE 0)
    + (IF a >= 1000 THEN 20 ELSE 0) + (IF a >= 2000 THEN 50 ELSE 0)
    + (IF a >= 5000 THEN 100 ELSE 0)

\* C19: an award for an order amount credits floor(amount / 10), plus 50 when
\* the order is the customer's first, plus the bonus of every milestone the
\* amount reaches, and records that number in the ledger entry; amount 1200
\* on a first order gives 190.
C19_PointsFormula ==
    /\ [](calculatePointsEarned(1200, TRUE) = 190)
    /\ [][last' = Response("awardPoints", "ok") =>
            \A u \in Users, id \in OrderIds, a \in OrderAmounts :
               awardPoints(u, id, a, "none") =>
                  LET e == ExpectedPoints(a, countNonCancelled(orders, u) = 1)
                      h == users'[u].pointsHistory
                  IN /\ users'[u].sweetPoints = users[u].sweetPoints + e
                     /\ h[Len(h)].amount = e]_vars

\* C19 witness: a first order of 1200 has earned 190 points.
C19_Witness ==
    \E u \in Users : \E k \in DOMAIN users[u].pointsHistory :
       /\ users[u].pointsHistory[k].amount = 190
       /\ users[u].pointsHistory[k].description = "Earned from first order + bonus"

\* C20: when the award fails after a valid transition into delivered, the
\* request still answers success, the order is delivered with deliveredAt
\* set, and the customer's balance and history are as they were.
C20_AwardFailureKeepsDelivery ==
    [][last'.op = "updateOrderStatus" =>
         \A id \in DOMAIN orders, f \in AwardFaults \ {"none"} :
            (/\ orders[id].orderStatus = "out_for_delivery"
             /\ orders[id].paymentStatus # "failed"
             /\ updateOrderStatusFaulty(id, "delivered", "", f))
            => /\ last'.res = "ok"
               /\ orders'[id].orderStatus = "delivered"
               /\ orders'[id].deliveredAt = now
               /\ users' = users]_vars

\* C20 witness: an order was delivered and its owner's ledger is still empty.
C20_Witness ==
    /\ last = Response("updateOrderStatus", "ok")
    /\ \E id \in DOMAIN orders :
          /\ orders[id].orderStatus = "delivered"
          /\ orders[id].deliveredAt # NoTime
          /\ users[orders[id].user].pointsHistory = <<>>

\* The 'redeemed' entries of a coupon's owner that are linked to the coupon.
RedeemedEntries(c) ==
    LET h == users[coupons[c].user].pointsHistory
    IN {k \in DOMAIN h : h[k].type = "redeemed" /\ h[k].relatedCoupon = c}

\* C21: every coupon in the store has exactly one 'redeemed' entry in its
\* owner's history, linked to it and of amount minus its points cost, and the
\* owner's balance is the points awarded less the cost of the owner's coupons;
\* also after a redemption whose user.save() was rejected.
C21_CouponHasLedgerEntry ==
    \A c \in DOMAIN coupons :
       LET u == coupons[c].user
       IN /\ Cardinality(RedeemedEntries(c)) = 1
          /\ \A k \in RedeemedEntries(c) :
                users[u].pointsHistory[k].amount = 0 - coupons[c].pointsCost
          /\ users[u].sweetPoints = AwardedTotal(u) - CouponCosts(u)

\* C22: a used coupon stays used and is not accepted by validateCoupon or as
\* a promo code of the cart, and a coupon's usedInOrder, once it holds an
\* order id, keeps that id whatever operation runs, markAsUsed included.
C22_CouponSingleUse ==
    [][/\ \A c \in DOMAIN coupons :
             /\ coupons[c].isUsed => coupons'[c].isUsed
             /\ coupons[c].usedInOrder # NoId =>
                   coupons'[c].usedInOrder = coupons[c].usedInOrder
       /\ (last'.op \in {"validateCoupon", "applyPromoCode"} /\ last'.res = "ok") =>
             \A u \in Users, code \in CouponCodes :
                (validateCoupon(u, code) \/ applyPromoCode(u, code)) =>
                   /\ findCoupon(coupons, code, u) # NoId
                   /\ ~coupons[findCoupon(coupons, code, u)].isUsed]_vars

\* C23: a coupon code is accepted for a customer's cart, by validateCoupon or
\* by applyPromoCode, only when the coupon is unused, the time is before its
\* expiresAt and the cart's subtotal is at least its minOrderAmount; the step
\* that accepts it leaves the coupon's discount in the cart's promoCode and the
\* coupon unused.
C23_CouponAppliedToCart ==
    [][(last'.op \in {"validateCoupon", "applyPromoCode"} /\ last'.res = "ok") =>
          \A u \in Users, code \in CouponCodes :
             (validateCoupon(u, code) \/ applyPromoCode(u, code)) =>
                LET c == findCoupon(coupons, code, u)
                IN /\ c # NoId
                   /\ ~coupons[c].isUsed
                   /\ now < coupons[c].expiresAt
                   /\ CartSubtotal(carts[u]) >= coupons[c].minOrderAmount
                   /\ carts'[u].promoCode =
                         [code |-> code, discount |-> coupons[c].discountValue,
                          discountType |-> coupons[c].discountType]
                   /\ ~coupons'[c].isUsed]_vars

\* C24: a checkout whose requested delivery date is less than 24 hours after
\* the time of the request is rejected and stores no order.
C24_DeliveryDateDayAhead ==
    [][last'.op = "createOrder" =>
          \A u \in Users, m \in PaymentMethods, d \in DeliveryDates :
             (d - now < 24 /\ createOrderOn(u, m, d, MaxOrders - 1)) =>
                (last'.res # "ok" /\ orders' = orders)]_vars

\* C25: no two stored orders have the same orderNumber, however the checkouts
\* overlap; the number generateOrderNumber returns was in no stored order when
\* it was looked up; and a checkout whose number has been taken meanwhile
\* stores nothing.
C25_UniqueOrderNumbers ==
    /\ [](\A i, j \in DOMAIN orders :
             i # j => orders[i].orderNumber # orders[j].orderNumber)
    /\ [][\A r \in 1..MaxInFlight :
             /\ (reqs[r].pc = "numbering" /\ reqs'[r].pc = "creating") =>
                   ~numberExists(orders, reqs'[r].orderNumber)
             /\ (reqs[r].pc = "creating" /\ reqs'[r].pc # "creating"
                 /\ numberExists(orders, reqs[r].orderNumber)) =>
                   (orders' = orders /\ last'.res = "duplicate-key")]_vars

\* Two checkouts drew the same number: one order is stored with it and the
\* other checkout was refused.
C25_Witness ==
    /\ last = Response("createOrder", "duplicate-key")
    /\ Len(orders) = 1
    /\ \A r \in 1..MaxInFlight : Idle(r)

C27_PaidStaysPaid ==
    [][\A id \in DOMAIN orders :
          (orders[id].paymentStatus = "paid"
           /\ last'.op \in {"handleFailure", "verifyPayment"})
          => orders'[id].paymentStatus # "failed"]_vars

\* C28: a cancelled order that is not paid does not become paid.
C28_CancelledNeverPaid ==
    [][\A id \in DOMAIN orders :
          (orders[id].orderStatus = "cancelled" /\ orders[id].paymentStatus # "paid")
          => orders'[id].paymentStatus # "paid"]_vars

\* C29: an esewa order that is in processing, out_for_delivery or delivered is
\* paid, and a customer holds no 'earned' entry for an esewa order of theirs
\* that is not paid.
C29_GatewayOrderPaidBeforeFulfilment ==
    \A id \in DOMAIN orders :
       orders[id].paymentMethod = "esewa" =>
          /\ orders[id].orderStatus \in {"processing", "out_for_delivery", "delivered"}
                => orders[id].paymentStatus = "paid"
          /\ EarnedFor(orders[id].user, id) # {}
                => orders[id].paymentStatus = "paid"

\* The 'earned' entries of a customer that carry the first-order bonus.
BonusEntries(u) ==
    {k \in DOMAIN users[u].pointsHistory :
        /\ users[u].pointsHistory[k].type = "earned"
        /\ users[u].pointsHistory[k].description = "Earned from first order + bonus"}

\* C30: over any sequence of checkouts, cancellations and deliveries a
\* customer has at most one 'earned' entry with the first-order bonus, and an
\* entry with the bonus is written only when the customer has exactly one
\* order that is not cancelled.
C30_FirstOrderBonusOnce ==
    /\ [](\A u \in Users : Cardinality(BonusEntries(u)) <= 1)
    /\ [][\A u \in Users :
             LET h == users'[u].pointsHistory
             IN (Len(h) > Len(users[u].pointsHistory)
                 /\ h[Len(h)].description = "Earned from first order + bonus") =>
                   Cardinality({i \in DOMAIN orders' :
                                   /\ orders'[i].user = u
                                   /\ orders'[i].orderStatus # "cancelled"}) = 1]_vars

\* A customer's first order was delivered with the bonus and a second order
\* was delivered without it.
C30_Witness ==
    \E u \in Users :
       /\ Cardinality(BonusEntries(u)) = 1
       /\ \E i, j \in DOMAIN orders :
             /\ i # j
             /\ EarnedFor(u, i) # {} /\ EarnedFor(u, j) # {}
             /\ EarnedFor(u, i) \subseteq BonusEntries(u)
             /\ EarnedFor(u, j) \cap BonusEntries(u) = {}

====
